---------------------------- MODULE Spec2Model ----------------------------
(***************************************************************************)
(* A model of oby-server: the record store of src/src/db.rs (the           *)
(* DatabaseElement trait over a sled keyspace) and the request handlers    *)
(* of src/src/requests_database.rs that use it under one process-wide      *)
(* mutex.                                                                  *)
(*                                                                         *)
(* Strings are sequences of one-character strings, so that a key is built  *)
(* by joining and a prefix scan compares leading characters, as sled       *)
(* does on the key bytes.  A stored value is a sequence of naturals: the   *)
(* bincode layout of the record (a string is its length followed by its    *)
(* character codes, a u32 is its four bytes, low byte first, a bool is 0   *)
(* or 1).                                                                  *)
(***************************************************************************)
EXTENDS Integers, Sequences, FiniteSets, TLC

VARIABLES
    db,               \* the sled keyspace: key |-> stored bytes
    poisoned,         \* whether a handler panicked holding the mutex
    overflow_checks,  \* whether the build panics on integer overflow: "on" or
                      \* "off", and "unset" until the first overflow shows it
    issued,           \* the identities given to the orders created, in order
    nreq,             \* the number of requests that changed something
    locked,           \* whether a thread holds the mutex
    threads,          \* each worker thread's place in the handler it runs
    last              \* the last request, its response and the store before it

vars == <<db, poisoned, overflow_checks, last, issued, nreq, locked, threads>>

-----------------------------------------------------------------------------
(* Bounds of the model. *)

\* The number of requests of one behaviour that change the store, the mutex
\* or the build's shown overflow checks.
MaxRequests == 3

\* The worker threads that serve requests side by side, and the number of
\* requests they take in one behaviour.
NumWorkers == 2
MaxAccepted == 4

Workers == 1..NumWorkers

-----------------------------------------------------------------------------
(* Strings. *)

\* Every character the model's strings use, in byte order.
Alphabet == <<" ","(",")",",",".","/","0","1","2","3","4","5","6","7","8","9","C","K","M","O","S","a","b","c","d","e","f","i","j","k","l","m","n","o","p","r","s","t","u","v","w","z">>

Chars == {Alphabet[i] : i \in 1..Len(Alphabet)}

\* The code of a character: its place in byte order.
CharCode == [c \in Chars |-> CHOOSE i \in 1..Len(Alphabet) : Alphabet[i] = c]

Digits == <<"0","1","2","3","4","5","6","7","8","9">>

-----------------------------------------------------------------------------
(* The u32 of the counters.  TLC's integers stop at 2^31 - 1, so a u32 is   *)
(* held as two 16-bit limbs: its value is hi * 2^16 + lo.                   *)

Limb == 2^16

u32(n) == [hi |-> n \div Limb, lo |-> n % Limb]

U32_MAX == [hi |-> Limb - 1, lo |-> Limb - 1]

u32_lt(a, b) == a.hi < b.hi \/ (a.hi = b.hi /\ a.lo < b.lo)

u32_le(a, b) == a = b \/ u32_lt(a, b)

\* a + 1 in a release build: the sum modulo 2^32.
wrapping_add1(a) ==
    IF a.lo < Limb - 1 THEN [hi |-> a.hi, lo |-> a.lo + 1]
    ELSE IF a.hi < Limb - 1 THEN [hi |-> a.hi + 1, lo |-> 0]
    ELSE [hi |-> 0, lo |-> 0]

\* a / 10 and a % 10, by long division over the limbs.
u32_div10(a) ==
    LET t == (a.hi % 10) * Limb + a.lo
    IN [hi |-> a.hi \div 10, lo |-> t \div 10]

u32_mod10(a) == ((a.hi % 10) * Limb + a.lo) % 10

RECURSIVE to_string(_)
\* u32::to_string: the decimal digits, no padding.
to_string(n) ==
    IF n.hi = 0 /\ n.lo < 10 THEN <<Digits[n.lo + 1]>>
    ELSE to_string(u32_div10(n)) \o <<Digits[u32_mod10(n) + 1]>>

RECURSIVE join(_, _)
\* [String]::join(sep).
join(parts, sep) ==
    IF parts = <<>> THEN <<>>
    ELSE IF Len(parts) = 1 THEN parts[1]
    ELSE parts[1] \o sep \o join(Tail(parts), sep)

\* Whether key starts with prefix (sled's scan_prefix test on the key bytes).
starts_with(key, prefix) ==
    Len(prefix) <= Len(key) /\ SubSeq(key, 1, Len(prefix)) = prefix

RECURSIVE LexLessFrom(_, _, _)
\* Byte order of two keys from place i on.
LexLessFrom(a, b, i) ==
    IF i > Len(a) THEN i <= Len(b)
    ELSE IF i > Len(b) THEN FALSE
    ELSE IF a[i] = b[i] THEN LexLessFrom(a, b, i + 1)
    ELSE CharCode[a[i]] < CharCode[b[i]]

\* Byte order of two keys (sled's key order).
LexLess(a, b) == LexLessFrom(a, b, 1)

-----------------------------------------------------------------------------
(* The record kinds and the key codec (db.rs). *)

QUALIFIED_SEPARATOR == <<"/">>

OFFER_NAMESPACE == <<"o","f","f","e","r">>
VIRTUAL_TABLE_NAMESPACE == <<"t","a","b","l","e">>
ORDER_NAMESPACE == <<"o","r","d","e","r">>

Kinds == {"offer", "table", "order"}

Offer(name, description, price_integer, price_fraction) ==
    [kind |-> "offer", name |-> name, description |-> description,
     price_integer |-> price_integer, price_fraction |-> price_fraction]

VirtualTable(name, order_count) ==
    [kind |-> "table", name |-> name, order_count |-> order_count]

Order(table, count, finished, items) ==
    [kind |-> "order", id |-> [table |-> table, count |-> count],
     finished |-> finished, items |-> items]

OrderItem(id, count) == [id |-> id, count |-> count]

\* Default::default() of a table and of an offer, with the name given.
DefaultTable(name) == VirtualTable(name, u32(0))
DefaultOffer(name) == Offer(name, <<>>, u32(0), u32(0))

namespace(kind) ==
    CASE kind = "offer" -> OFFER_NAMESPACE
      [] kind = "table" -> VIRTUAL_TABLE_NAMESPACE
      [] kind = "order" -> ORDER_NAMESPACE

status(r) ==
    IF r.kind = "order"
    THEN <<IF r.finished THEN <<"o","l","d">> ELSE <<"n","e","w">>>>
    ELSE <<>>

main_identifier(r) ==
    IF r.kind = "order" THEN to_string(r.id.count) ELSE r.name

secondary_identifiers(r) ==
    IF r.kind = "order" THEN <<r.id.table>> ELSE <<>>

secondary_identifiers_try_to_string(r) ==
    IF secondary_identifiers(r) = <<>>
    THEN [some |-> FALSE]
    ELSE [some |-> TRUE,
          val |-> join(secondary_identifiers(r), QUALIFIED_SEPARATOR)]

\* A status part that leaves the tags out.
status_to_string_blank(r) == <<"(">> \o <<")">>

status_to_string(r) == <<"(">> \o join(status(r), <<",">>) \o <<")">>

qualified_identifier_mainless_secondless(r) ==
    join(<<namespace(r.kind), status_to_string(r)>>, QUALIFIED_SEPARATOR)

qualified_identifier_mainless(r) ==
    LET partial(sec) ==
            IF sec.some
            THEN <<qualified_identifier_mainless_secondless(r), sec.val>>
            ELSE <<qualified_identifier_mainless_secondless(r)>>
    IN join(partial(secondary_identifiers_try_to_string(r)),
            QUALIFIED_SEPARATOR)

qualified_identifier(r) ==
    join(<<qualified_identifier_mainless(r), main_identifier(r)>>,
         QUALIFIED_SEPARATOR)

\* The kind a raw key belongs to: the text before its first separator.
database_element_get_kind(s) ==
    IF \E i \in 1..Len(s) : s[i] = "/"
    THEN LET i == CHOOSE j \in 1..Len(s) :
                    s[j] = "/" /\ \A h \in 1..(j - 1) : s[h] # "/"
         IN [some |-> TRUE, val |-> SubSeq(s, 1, i - 1)]
    ELSE [some |-> FALSE]

-----------------------------------------------------------------------------
(* bincode: the stored form of a record. *)

ser_len(n) == <<n>>

ser_string(s) == ser_len(Len(s)) \o [i \in 1..Len(s) |-> CharCode[s[i]]]

\* The four bytes of a u32, high byte first.
ser_u32_big_endian(n) ==
    <<n.hi \div 256, n.hi % 256, n.lo \div 256, n.lo % 256>>

ser_u32(n) == <<n.lo % 256, n.lo \div 256, n.hi % 256, n.hi \div 256>>

ser_bool(b) == <<IF b THEN 1 ELSE 0>>

ser_item(it) == ser_string(it.id) \o ser_u32(it.count)

RECURSIVE ser_items(_)
ser_items(items) ==
    IF items = <<>> THEN <<>>
    ELSE ser_item(Head(items)) \o ser_items(Tail(items))

\* bincode::serialize: the fields in declaration order, no tag of the kind.
serialize(r) ==
    CASE r.kind = "offer" ->
           ser_string(r.name) \o ser_string(r.description)
             \o ser_u32(r.price_integer) \o ser_u32(r.price_fraction)
      [] r.kind = "table" -> ser_string(r.name) \o ser_u32(r.order_count)
      [] r.kind = "order" ->
           ser_string(r.id.table) \o ser_u32(r.id.count)
             \o ser_bool(r.finished)
             \o ser_len(Len(r.items)) \o ser_items(r.items)

\* A decoding step's result: the value read and the place after it.
DeOk(val, next) == [ok |-> TRUE, val |-> val, next |-> next]
DeErr == [ok |-> FALSE]

de_string(raw, pos) ==
    IF pos > Len(raw) THEN DeErr
    ELSE LET n == raw[pos] IN
         IF pos + n > Len(raw) THEN DeErr
         ELSE IF \E i \in 1..n : raw[pos + i] \notin 1..Len(Alphabet) THEN DeErr
         ELSE DeOk([i \in 1..n |-> Alphabet[raw[pos + i]]], pos + n + 1)

de_u32(raw, pos) ==
    IF pos + 3 > Len(raw) THEN DeErr
    ELSE IF \E i \in 0..3 : raw[pos + i] > 255 THEN DeErr
    ELSE DeOk([hi |-> raw[pos + 3] * 256 + raw[pos + 2],
               lo |-> raw[pos + 1] * 256 + raw[pos]], pos + 4)

de_bool(raw, pos) ==
    IF pos > Len(raw) THEN DeErr
    ELSE IF raw[pos] \notin {0, 1} THEN DeErr
    ELSE DeOk(raw[pos] = 1, pos + 1)

de_item(raw, pos) ==
    LET id_read(id) ==
            LET count_read(count) ==
                    IF ~count.ok THEN DeErr
                    ELSE DeOk(OrderItem(id.val, count.val), count.next)
            IN IF ~id.ok THEN DeErr ELSE count_read(de_u32(raw, id.next))
    IN id_read(de_string(raw, pos))

RECURSIVE de_items(_, _, _)
de_items(raw, pos, n) ==
    LET item_read(it) ==
            LET rest_read(rest) ==
                    IF ~rest.ok THEN DeErr
                    ELSE DeOk(<<it.val>> \o rest.val, rest.next)
            IN IF ~it.ok THEN DeErr
               ELSE rest_read(de_items(raw, it.next, n - 1))
    IN IF n = 0 THEN DeOk(<<>>, pos) ELSE item_read(de_item(raw, pos))

de_offer(raw) ==
    LET name_read(name) ==
          LET description_read(description) ==
                LET integer_read(price_integer) ==
                      LET fraction_read(price_fraction) ==
                            IF ~price_fraction.ok THEN DeErr
                            ELSE DeOk(Offer(name.val, description.val,
                                            price_integer.val,
                                            price_fraction.val),
                                      price_fraction.next)
                      IN IF ~price_integer.ok THEN DeErr
                         ELSE fraction_read(de_u32(raw, price_integer.next))
                IN IF ~description.ok THEN DeErr
                   ELSE integer_read(de_u32(raw, description.next))
          IN IF ~name.ok THEN DeErr
             ELSE description_read(de_string(raw, name.next))
    IN name_read(de_string(raw, 1))

de_table(raw) ==
    LET name_read(name) ==
          LET count_read(order_count) ==
                IF ~order_count.ok THEN DeErr
                ELSE DeOk(VirtualTable(name.val, order_count.val),
                          order_count.next)
          IN IF ~name.ok THEN DeErr ELSE count_read(de_u32(raw, name.next))
    IN name_read(de_string(raw, 1))

de_order(raw) ==
    LET table_read(table) ==
          LET count_read(count) ==
                LET finished_read(finished) ==
                      LET items_read(items) ==
                            IF ~items.ok THEN DeErr
                            ELSE DeOk(Order(table.val, count.val, finished.val,
                                            items.val), items.next)
                      IN IF ~finished.ok THEN DeErr
                         ELSE IF finished.next > Len(raw) THEN DeErr
                         ELSE items_read(de_items(raw, finished.next + 1,
                                                  raw[finished.next]))
                IN IF ~count.ok THEN DeErr
                   ELSE finished_read(de_bool(raw, count.next))
          IN IF ~table.ok THEN DeErr ELSE count_read(de_u32(raw, table.next))
    IN table_read(de_string(raw, 1))

\* bincode::deserialize::<Self>: the bytes read as a record of the kind asked
\* for; bytes left over after the last field are ignored.
deserialize(kind, raw) ==
    CASE kind = "offer" -> de_offer(raw)
      [] kind = "table" -> de_table(raw)
      [] kind = "order" -> de_order(raw)

-----------------------------------------------------------------------------
(* sled: a map from keys to values kept in key order, held as the         *)
(* sequence of its <<key, value>> entries in ascending byte order.         *)

EmptyDb == <<>>

Keys(d) == {d[i][1] : i \in 1..Len(d)}

sled_contains_key(d, k) == \E i \in 1..Len(d) : d[i][1] = k

\* The value at a key the store holds.
sled_get(d, k) == d[CHOOSE i \in 1..Len(d) : d[i][1] = k][2]

\* A store that keeps its entries in the order they were first written.
sled_insert_last(d, k, v) ==
    IF sled_contains_key(d, k)
    THEN [i \in 1..Len(d) |-> IF d[i][1] = k THEN <<k, v>> ELSE d[i]]
    ELSE Append(d, <<k, v>>)

sled_insert(d, k, v) ==
    LET at(n) == SubSeq(d, 1, n) \o <<<<k, v>>>> \o SubSeq(d, n + 1, Len(d))
    IN IF sled_contains_key(d, k)
       THEN [i \in 1..Len(d) |-> IF d[i][1] = k THEN <<k, v>> ELSE d[i]]
       ELSE at(Cardinality({i \in 1..Len(d) : LexLess(d[i][1], k)}))

sled_remove(d, k) ==
    LET keep(e) == e[1] # k IN SelectSeq(d, keep)

\* The entries whose key starts with prefix, in key order.
sled_scan_prefix(d, prefix) ==
    LET match(e) == starts_with(e[1], prefix) IN SelectSeq(d, match)

-----------------------------------------------------------------------------
(* The record store: the provided methods of DatabaseElement (db.rs).      *)
(* fault says that the sled call of the operation returns Err; bad is the  *)
(* set of places of the scan at which the iterator yields Err.             *)

Ok(val) == [ok |-> TRUE, val |-> val]
Err == [ok |-> FALSE]

\* A removal that reports Ok(()) and removes nothing.
remove_nothing(r, d, fault) == [ok |-> ~fault, db |-> d]

\* A removal at the key without its main identifier.
remove_mainless(r, d, fault) ==
    IF fault THEN [ok |-> FALSE, db |-> d]
    ELSE [ok |-> TRUE, db |-> sled_remove(d, qualified_identifier_mainless(r))]

\* A lookup that takes a key the store does not hold for a failure.
get_or_fail(kind, id, d, fault) ==
    LET decoded(item) ==
            IF item.ok THEN [tag |-> "OkSome", val |-> item.val]
            ELSE [tag |-> "Err"]
    IN IF fault \/ ~sled_contains_key(d, id) THEN [tag |-> "Err"]
       ELSE decoded(deserialize(kind, sled_get(d, id)))

\* An insert at the key without its main identifier.
insert_mainless(r, d, fault) ==
    IF fault THEN [ok |-> FALSE, db |-> d]
    ELSE [ok |-> TRUE,
          db |-> sled_insert(d, qualified_identifier_mainless(r),
                             serialize(r))]

\* Ok(()) with the store as written, or Err with the store as it was.
\* An insert that keeps the value already stored at the key.
insert_if_absent(r, d, fault) ==
    IF fault THEN [ok |-> FALSE, db |-> d]
    ELSE IF sled_contains_key(d, qualified_identifier(r))
    THEN [ok |-> TRUE, db |-> d]
    ELSE [ok |-> TRUE,
          db |-> sled_insert(d, qualified_identifier(r), serialize(r))]

insert(r, d, fault) ==
    IF fault THEN [ok |-> FALSE, db |-> d]
    ELSE [ok |-> TRUE,
          db |-> sled_insert(d, qualified_identifier(r), serialize(r))]

\* A removal of every entry whose key begins with the record's key.
remove_prefixed(r, d, fault) ==
    LET keep(e) == ~starts_with(e[1], qualified_identifier(r))
    IN IF fault THEN [ok |-> FALSE, db |-> d]
       ELSE [ok |-> TRUE, db |-> SelectSeq(d, keep)]

remove(r, d, fault) ==
    IF fault THEN [ok |-> FALSE, db |-> d]
    ELSE [ok |-> TRUE, db |-> sled_remove(d, qualified_identifier(r))]

exists(r, d, fault) ==
    IF fault THEN Err ELSE Ok(sled_contains_key(d, qualified_identifier(r)))

\* A lookup that finds an empty record where the store holds none.
get_or_default(kind, id, d, fault) ==
    LET decoded(item) ==
            IF item.ok THEN [tag |-> "OkSome", val |-> item.val]
            ELSE [tag |-> "Err"]
        default ==
            CASE kind = "table" -> VirtualTable(<<>>, [hi |-> 0, lo |-> 0])
              [] kind = "offer" ->
                   Offer(<<>>, <<>>, [hi |-> 0, lo |-> 0], [hi |-> 0, lo |-> 0])
              [] kind = "order" ->
                   Order(<<>>, [hi |-> 0, lo |-> 0], FALSE, <<>>)
    IN IF fault THEN [tag |-> "Err"]
       ELSE IF ~sled_contains_key(d, id)
       THEN [tag |-> "OkSome", val |-> default]
       ELSE decoded(deserialize(kind, sled_get(d, id)))

\* Ok(Some(record)), Ok(None) or Err.
get(kind, id, d, fault) ==
    LET decoded(item) ==
            IF item.ok THEN [tag |-> "OkSome", val |-> item.val]
            ELSE [tag |-> "Err"]
    IN IF fault THEN [tag |-> "Err"]
       ELSE IF ~sled_contains_key(d, id) THEN [tag |-> "OkNone"]
       ELSE decoded(deserialize(kind, sled_get(d, id)))

\* A scan that passes over the entries that do not decode as well.
RECURSIVE scan_loop_lenient(_, _, _, _)
scan_loop_lenient(kind, kvs, i, bad) ==
    LET push(value) ==
            LET onto(rest) ==
                    IF ~value.ok THEN rest ELSE Ok(<<value.val>> \o rest.val)
            IN onto(scan_loop_lenient(kind, kvs, i + 1, bad))
    IN IF i > Len(kvs) THEN Ok(<<>>)
       ELSE IF i \in bad THEN scan_loop_lenient(kind, kvs, i + 1, bad)
       ELSE push(deserialize(kind, kvs[i][2]))

RECURSIVE scan_loop(_, _, _, _)
\* The loop of the three scans from place i on: an entry the iterator
\* yields as Err is passed over, an entry that does not decode ends the
\* scan with Err.
scan_loop(kind, kvs, i, bad) ==
    LET push(value) ==
            LET onto(rest) ==
                    IF ~rest.ok THEN Err ELSE Ok(<<value.val>> \o rest.val)
            IN IF ~value.ok THEN Err
               ELSE onto(scan_loop(kind, kvs, i + 1, bad))
    IN IF i > Len(kvs) THEN Ok(<<>>)
       ELSE IF i \in bad THEN scan_loop(kind, kvs, i + 1, bad)
       ELSE push(deserialize(kind, kvs[i][2]))

\* A group scan over the whole namespace of the kind.
get_templated_namespace(r, d, bad) ==
    scan_loop(r.kind, sled_scan_prefix(d, namespace(r.kind)), 1, bad)

\* A status scan that keeps the template's secondary identifiers.
get_status_mainless(r, d, bad) ==
    scan_loop(r.kind, sled_scan_prefix(d, qualified_identifier_mainless(r)),
              1, bad)

get_templated(r, d, bad) ==
    scan_loop(r.kind, sled_scan_prefix(d, qualified_identifier_mainless(r)),
              1, bad)

get_status(r, d, bad) ==
    scan_loop(r.kind,
              sled_scan_prefix(d, qualified_identifier_mainless_secondless(r)),
              1, bad)

get_all(kind, d, bad) ==
    scan_loop(kind, sled_scan_prefix(d, namespace(kind)), 1, bad)

-----------------------------------------------------------------------------
(* The seed data that main writes before serving (fill_db).  The two       *)
(* descriptions are written without their diacritics.                      *)

Kava == <<"K","a","v","a">>
Cedevita == <<"C","e","d","e","v","i","t","a">>
KavaDescription == <<"M","a","l","a"," ","k","a","v","a"," ","o","d"," ","s","v","i","j","e","z","i"," ","s","j","e","m","e","n","k","i",".">>
CedevitaDescription == <<"O","s","v","j","e","z","a","v","a","j","u","c","e"," ","p","i","c","e",".">>
Stol1 == <<"S","t","o","l"," ","1">>
Stol2 == <<"S","t","o","l"," ","2">>
Stol3 == <<"S","t","o","l"," ","3">>
Stol4 == <<"S","t","o","l"," ","4">>
Stol5 == <<"S","t","o","l"," ","5">>

FillOffers ==
    << Offer(Kava, KavaDescription, u32(1), u32(50)),
       Offer(Cedevita, CedevitaDescription, u32(2), u32(40)) >>

FillTables ==
    << VirtualTable(Stol1, u32(0)), VirtualTable(Stol2, u32(3)),
       VirtualTable(Stol3, u32(2)), VirtualTable(Stol4, u32(5)),
       VirtualTable(Stol5, u32(7)) >>

FillOrders ==
    << Order(Stol2, u32(1), FALSE,
             <<OrderItem(Kava, u32(2)), OrderItem(Cedevita, u32(4))>>),
       Order(Stol1, u32(2), FALSE, <<OrderItem(Kava, u32(1))>>),
       Order(Stol3, u32(3), FALSE,
             <<OrderItem(Kava, u32(3)), OrderItem(Cedevita, u32(2))>>),
       Order(Stol5, u32(4), FALSE,
             <<OrderItem(Kava, u32(5)), OrderItem(Cedevita, u32(4))>>) >>

RECURSIVE insert_each(_, _)
\* into_iter().for_each(|x| x.insert(db).expect(..)).
insert_each(records, d) ==
    IF records = <<>> THEN d
    ELSE insert_each(Tail(records), insert(Head(records), d, FALSE).db)

fill_db(d) == insert_each(FillOrders, insert_each(FillTables, insert_each(FillOffers, d)))

-----------------------------------------------------------------------------
(* The request handlers (requests_database.rs).  Each is given whether the *)
(* mutex is poisoned, the store, the request and the failures of the sled  *)
(* calls it makes, and yields the response, the store it leaves, whether   *)
(* it panicked holding the lock, and the identity of the order it created. *)

HttpResponse(code, reason, body, json) ==
    [code |-> code, reason |-> reason, body |-> body, json |-> json]

NoJson == [none |-> TRUE]

\* The two bodies whose only field is table, a table record in one and a
\* table's name in the other, are held under the name of their type.

\* The body every handler answers with when the lock fails (the emoji that
\* ends the reference is left out).
DEADLOCK == "Database is in a deadlock. (DEADLOCK REFERENCE)"

Out(resp, d) == [resp |-> resp, db |-> d, panic |-> FALSE, created |-> <<>>]

\* A panic under the lock: no response, and the guard's drop poisons the mutex.
Panicked(d) ==
    [resp |-> HttpResponse("Panic", "", "", NoJson), db |-> d, panic |-> TRUE,
     created |-> <<>>]

None == [some |-> FALSE]
Some(x) == [some |-> TRUE, val |-> x]

handler_tables(p, d, bad) ==
    LET respond(tables) ==
            IF tables.ok
            THEN Out(HttpResponse("Ok", "", "", [tables |-> tables.val]), d)
            ELSE Out(HttpResponse("NotFound", "", "Database failed.", NoJson),
                     d)
    IN IF p THEN Out(HttpResponse("NotFound", "", DEADLOCK, NoJson), d)
       ELSE respond(get_templated(DefaultTable(<<>>), d, bad))

handler_tables_specific(p, d, user_tables, fault) ==
    LET respond(got) ==
            CASE got.tag = "OkSome" ->
                   Out(HttpResponse("Ok", "", "",
                                    [TablesSpecificResponseData |->
                                        [table |-> got.val]]), d)
              [] got.tag = "OkNone" ->
                   Out(HttpResponse("NotFound", "", "Not found.", NoJson), d)
              [] got.tag = "Err" ->
                   Out(HttpResponse("NotFound", "", "Database failed.", NoJson),
                       d)
    IN IF p THEN Out(HttpResponse("NotFound", "", DEADLOCK, NoJson), d)
       ELSE respond(get("table",
                        qualified_identifier(DefaultTable(user_tables)),
                        d, fault))

\* POST /tables that writes whether or not the lock was taken.
handler_tables_insert_unguarded(p, d, table, fault) ==
    LET respond(w) ==
            IF w.ok
            THEN Out(HttpResponse("Ok", "", "Successfully created the table.",
                                  NoJson), w.db)
            ELSE Out(HttpResponse("InternalServerError", "", "Database failed.",
                                  NoJson), w.db)
    IN respond(insert(table, d, fault))

handler_tables_insert(p, d, table, fault) ==
    LET respond(w) ==
            IF w.ok
            THEN Out(HttpResponse("Ok", "", "Successfully created the table.",
                                  NoJson), w.db)
            ELSE Out(HttpResponse("InternalServerError", "", "Database failed.",
                                  NoJson), w.db)
    IN IF p
       THEN Out(HttpResponse("InternalServerError", "", DEADLOCK, NoJson), d)
       ELSE respond(insert(table, d, fault))

handler_tables_delete(p, d, table_id, fault) ==
    LET respond(w) ==
            IF w.ok
            THEN Out(HttpResponse("Ok", "", "Successfully removed the table.",
                                  NoJson), w.db)
            ELSE Out(HttpResponse("InternalServerError", "", "Database failed.",
                                  NoJson), w.db)
    IN IF p
       THEN Out(HttpResponse("InternalServerError", "", DEADLOCK, NoJson), d)
       ELSE respond(remove(DefaultTable(table_id), d, fault))

handler_offers(p, d, bad) ==
    LET respond(probable_offers) ==
            IF probable_offers.ok
            THEN Out(HttpResponse("Ok", "", "",
                                  [offers |-> probable_offers.val]), d)
            ELSE Out(HttpResponse("InternalServerError", "",
                                  "Failed to get offers due to a database error.",
                                  NoJson), d)
    IN IF p
       THEN Out(HttpResponse("InternalServerError", "", DEADLOCK, NoJson), d)
       ELSE respond(get_templated(DefaultOffer(<<>>), d, bad))

handler_offers_specific(p, d, user_offer, fault) ==
    LET respond(got) ==
            CASE got.tag = "OkSome" ->
                   Out(HttpResponse("Ok", "", "", [offer |-> got.val]), d)
              [] got.tag = "OkNone" ->
                   Out(HttpResponse("NotFound", "Does not exist!", "", NoJson),
                       d)
              [] got.tag = "Err" ->
                   Out(HttpResponse("InternalServerError",
                                    "Failed to get offers due to a database error.",
                                    "", NoJson), d)
    IN IF p
       THEN Out(HttpResponse("InternalServerError", DEADLOCK, "", NoJson), d)
       ELSE respond(get("offer", qualified_identifier(DefaultOffer(user_offer)),
                        d, fault))

handler_offers_insert(p, d, offer, fault) ==
    LET respond(w) ==
            IF w.ok
            THEN Out(HttpResponse("Ok", "", "Successfully created the offer.",
                                  NoJson), w.db)
            ELSE Out(HttpResponse("InternalServerError", "", "Database failed.",
                                  NoJson), w.db)
    IN IF p
       THEN Out(HttpResponse("InternalServerError", "", DEADLOCK, NoJson), d)
       ELSE respond(insert(offer, d, fault))

handler_offers_delete(p, d, offer_id, fault) ==
    LET respond(w) ==
            IF w.ok
            THEN Out(HttpResponse("Ok", "", "Successfully removed the table.",
                                  NoJson), w.db)
            ELSE Out(HttpResponse("InternalServerError", "", "Database failed.",
                                  NoJson), w.db)
    IN IF p
       THEN Out(HttpResponse("InternalServerError", "", DEADLOCK, NoJson), d)
       ELSE respond(remove(DefaultOffer(offer_id), d, fault))

\* The scan that GET /orders runs for the request's new and table fields.
orders_query(data, d, bad) ==
    IF ~data.new /\ ~data.table.some THEN get_all("order", d, bad)
    ELSE IF data.table.some
    THEN get_templated(Order(data.table.val, u32(0), ~data.new, <<>>), d, bad)
    ELSE get_status(Order(<<>>, u32(0), ~data.new, <<>>), d, bad)

handler_orders(p, d, data, bad) ==
    LET respond(probable_orders) ==
            IF probable_orders.ok
            THEN Out(HttpResponse("Ok", "", "",
                                  [orders |-> probable_orders.val]), d)
            ELSE Out(HttpResponse("InternalServerError", "",
                                  "Failed to get offers due to a database error.",
                                  NoJson), d)
    IN IF p
       THEN Out(HttpResponse("InternalServerError", "", DEADLOCK, NoJson), d)
       ELSE respond(orders_query(data, d, bad))

handler_orders_specific(p, d, order, fault) ==
    LET respond(got) ==
            CASE got.tag = "OkSome" ->
                   Out(HttpResponse("Ok", "", "", [order |-> got.val]), d)
              [] got.tag = "OkNone" ->
                   Out(HttpResponse("NotFound", "Does not exist!", "", NoJson),
                       d)
              [] got.tag = "Err" ->
                   Out(HttpResponse("InternalServerError",
                                    "Failed to get offers due to a database error.",
                                    "", NoJson), d)
    IN IF p
       THEN Out(HttpResponse("InternalServerError", DEADLOCK, "", NoJson), d)
       ELSE respond(get("order", qualified_identifier(order), d, fault))

\* table.order_count + 1: with overflow checks (a debug build) the sum
\* panics at the largest u32, without them (a release build) it wraps.
add_one(order_count, checks) ==
    IF order_count = U32_MAX /\ checks = "on"
    THEN [panic |-> TRUE]
    ELSE [panic |-> FALSE, val |-> wrapping_add1(order_count)]

\* f: the sled call that fails (1 the table's get, 2 the table's insert,
\* 3 the order's insert), or 0.
handler_orders_insert(p, d, order, f, checks) ==
    LET store(table, template) ==
            LET order_written(w2) ==
                    IF w2.ok
                    THEN [resp |-> HttpResponse("Ok", "",
                                      "Successfully created the order.", NoJson),
                          db |-> w2.db, panic |-> FALSE,
                          created |-> <<template.id>>]
                    ELSE Out(HttpResponse("InternalServerError", "",
                                          "Database failed.", NoJson), w2.db)
                table_written(w1) ==
                    IF ~w1.ok
                    THEN Out(HttpResponse("InternalServerError", "",
                                          "Database failed.", NoJson), w1.db)
                    ELSE order_written(insert(template, w1.db, f = 3))
            IN table_written(insert(table, d, f = 2))
        number(table, sum) ==
            IF sum.panic THEN Panicked(d)
            ELSE store([table EXCEPT !.order_count = sum.val],
                       [order EXCEPT !.id.count = sum.val])
        table_read(got) ==
            IF got.tag # "OkSome"
            THEN Out(HttpResponse("InternalServerError", "", "Database failed.",
                                  NoJson), d)
            ELSE number(got.val, add_one(got.val.order_count, checks))
    IN IF p
       THEN Out(HttpResponse("InternalServerError", "", DEADLOCK, NoJson), d)
       ELSE table_read(get("table",
                           qualified_identifier(DefaultTable(order.id.table)),
                           d, f = 1))

handler_orders_delete(p, d, order, fault) ==
    LET respond(w) ==
            IF w.ok
            THEN Out(HttpResponse("Ok", "", "Successfully removed the table.",
                                  NoJson), w.db)
            ELSE Out(HttpResponse("InternalServerError", "", "Database failed.",
                                  NoJson), w.db)
    IN IF p
       THEN Out(HttpResponse("InternalServerError", "", DEADLOCK, NoJson), d)
       ELSE respond(remove(order, d, fault))

\* The order written back as it was read.
finished_order_unchanged(order) == order

\* The order as finish-order writes it back.
finished_order(order) == [order EXCEPT !.finished = TRUE]

\* f: the sled call that fails (1 the get, 2 the remove, 3 the insert), or 0.
handler_orders_finish(p, d, template, f) ==
    LET move(order) ==
            LET written(w2) ==
                    IF w2.ok
                    THEN Out(HttpResponse("Ok", "", "",
                                          [OrdersFinishResponseData |->
                                              [table |-> order.id.table]]), w2.db)
                    ELSE Out(HttpResponse("InternalServerError", "",
                                          "Database failed.", NoJson), w2.db)
                removed(w1) ==
                    IF ~w1.ok
                    THEN Out(HttpResponse("InternalServerError", "",
                                          "Database failed.", NoJson), w1.db)
                    ELSE written(insert(order, w1.db, f = 3))
            IN removed(remove(template, d, f = 2))
        order_read(got) ==
            IF got.tag # "OkSome"
            THEN Out(HttpResponse("InternalServerError", "",
                                  "Order doesn't exist.", NoJson), d)
            ELSE move(finished_order(got.val))
    IN IF p
       THEN Out(HttpResponse("InternalServerError", "", DEADLOCK, NoJson), d)
       ELSE order_read(get("order", qualified_identifier(template), d, f = 1))

handler_offers_tables(p, d, bad) ==
    LET tables_read(tables) ==
            LET offers_read(offers) ==
                    IF ~offers.ok
                    THEN Out(HttpResponse("InternalServerError", "",
                                          "Database failed.", NoJson), d)
                    ELSE Out(HttpResponse("Ok", "", "",
                                          [offers |-> offers.val,
                                           tables |-> tables.val]), d)
            IN IF ~tables.ok
               THEN Out(HttpResponse("InternalServerError", "",
                                     "Database failed.", NoJson), d)
               ELSE offers_read(get_all("offer", d, bad))
    IN IF p
       THEN Out(HttpResponse("InternalServerError", "", DEADLOCK, NoJson), d)
       ELSE tables_read(get_all("table", d, bad))

\* file_ok: whether index.html can be read; expect() panics when it cannot.
handler_server(p, d, table_id, file_ok, bad) ==
    LET tables_read(tables) ==
            IF ~tables.ok
            THEN Out(HttpResponse("InternalServerError", "", "Database failed.",
                                  NoJson), d)
            ELSE IF table_id \in {tables.val[i].name : i \in 1..Len(tables.val)}
            THEN Out(HttpResponse("Ok", "", "index.html", NoJson), d)
            ELSE Out(HttpResponse("InternalServerError", "",
                                  "Table does not exist!", NoJson), d)
    IN IF p
       THEN Out(HttpResponse("InternalServerError", "", DEADLOCK, NoJson), d)
       ELSE IF ~file_ok THEN Panicked(d)
       ELSE tables_read(get_all("table", d, bad))

-----------------------------------------------------------------------------
(* The requests the model sends. *)

\* A table name that is a leading part of the seeded names, and one of them.
Stol == <<"S","t","o","l">>
ReqTables == {Stol, Stol1}

Cola == <<"C","o","l","a">>
ReqOffers == {Kava, Cola}

ReqCounts == {u32(1), u32(2)}

ReqItems == {<<>>, <<OrderItem(Kava, u32(2))>>}

\* Bodies of POST /tables: a new or reset counter, and the largest one.
TableInputs == {VirtualTable(t, c) : t \in ReqTables, c \in {u32(0), U32_MAX}}

\* Bodies of POST /offers.
OfferInputs ==
    {Offer(Kava, KavaDescription, u32(2), u32(0)), Offer(Cola, <<>>, u32(3), u32(10))}

\* Bodies of POST /orders: the count and the finished flag are the client's.
CreateInputs ==
    {Order(t, c, f, i) : t \in ReqTables, c \in {u32(0)}, f \in BOOLEAN,
                         i \in ReqItems}

\* Bodies that name an order: GET /orders/specific, DELETE /orders and
\* POST /orders-finish.
OrderTemplates ==
    {Order(t, c, f, <<>>) : t \in ReqTables, c \in ReqCounts, f \in BOOLEAN}

\* Bodies of GET /orders.
OrdersQueries ==
    {[new |-> n, table |-> t] :
        n \in BOOLEAN, t \in {None} \cup {Some(x) : x \in ReqTables}}

\* What a scan's iterator may yield as Err: nothing, or its first entry.
BadSets == {{}, {1}}

-----------------------------------------------------------------------------
(* The state machine: main fills the store, then the servers take requests,*)
(* each handled whole under the mutex.                                     *)

\* A worker thread that runs no handler.
Idle == [pc |-> "idle"]

Init ==
    /\ db = fill_db(EmptyDb)
    /\ poisoned = FALSE
    /\ overflow_checks = "unset"
    /\ last = [op |-> "main", arg |-> NoJson, env |-> NoJson,
               resp |-> HttpResponse("", "", "", NoJson), before |-> EmptyDb,
               changed |-> TRUE]
    /\ issued = <<>>
    /\ nreq = 0
    /\ locked = FALSE
    /\ threads = [w \in Workers |-> Idle]

\* One request served: the handler's outcome becomes the state.  A request
\* that left everything as it was is not continued: what follows it follows
\* the state before it as well.
Serve(op, arg, env, outcome) ==
    /\ nreq < MaxRequests
    /\ last.changed
    /\ LET out == outcome
           changed == \/ out.db # db
                      \/ out.panic /\ ~poisoned
                      \/ out.created # <<>>
                      \/ overflow_checks' # overflow_checks
       IN /\ nreq' = IF changed THEN nreq + 1 ELSE nreq
          /\ last' = [op |-> op, arg |-> arg, env |-> env, resp |-> out.resp,
                      before |-> db, changed |-> changed]
          /\ db' = out.db
          /\ poisoned' = (poisoned \/ out.panic)
          /\ issued' = issued \o out.created
          /\ UNCHANGED <<locked, threads>>

GetTables ==
    \E bad \in BadSets :
        /\ UNCHANGED overflow_checks
        /\ Serve("handler_tables", NoJson, [bad |-> bad],
                 handler_tables(poisoned, db, bad))

GetTablesSpecific ==
    \E id \in ReqTables, fault \in BOOLEAN :
        /\ UNCHANGED overflow_checks
        /\ Serve("handler_tables_specific", id, [fault |-> fault],
                 handler_tables_specific(poisoned, db, id, fault))

PostTables ==
    \E table \in TableInputs, fault \in BOOLEAN :
        /\ UNCHANGED overflow_checks
        /\ Serve("handler_tables_insert", table, [fault |-> fault],
                 handler_tables_insert(poisoned, db, table, fault))

DeleteTables ==
    \E id \in ReqTables, fault \in BOOLEAN :
        /\ UNCHANGED overflow_checks
        /\ Serve("handler_tables_delete", id, [fault |-> fault],
                 handler_tables_delete(poisoned, db, id, fault))

GetOffers ==
    \E bad \in BadSets :
        /\ UNCHANGED overflow_checks
        /\ Serve("handler_offers", NoJson, [bad |-> bad],
                 handler_offers(poisoned, db, bad))

GetOffersSpecific ==
    \E id \in ReqOffers, fault \in BOOLEAN :
        /\ UNCHANGED overflow_checks
        /\ Serve("handler_offers_specific", id, [fault |-> fault],
                 handler_offers_specific(poisoned, db, id, fault))

PostOffers ==
    \E offer \in OfferInputs, fault \in BOOLEAN :
        /\ UNCHANGED overflow_checks
        /\ Serve("handler_offers_insert", offer, [fault |-> fault],
                 handler_offers_insert(poisoned, db, offer, fault))

DeleteOffers ==
    \E id \in ReqOffers, fault \in BOOLEAN :
        /\ UNCHANGED overflow_checks
        /\ Serve("handler_offers_delete", id, [fault |-> fault],
                 handler_offers_delete(poisoned, db, id, fault))

GetOrders ==
    \E data \in OrdersQueries, bad \in BadSets :
        /\ UNCHANGED overflow_checks
        /\ Serve("handler_orders", data, [bad |-> bad],
                 handler_orders(poisoned, db, data, bad))

GetOrdersSpecific ==
    \E order \in OrderTemplates, fault \in BOOLEAN :
        /\ UNCHANGED overflow_checks
        /\ Serve("handler_orders_specific", order, [fault |-> fault],
                 handler_orders_specific(poisoned, db, order, fault))

\* Whether create-order's sum is taken at the largest u32.
overflows(p, d, order, f) ==
    LET at_largest(got) ==
            got.tag = "OkSome" /\ got.val.order_count = U32_MAX
    IN ~p /\ at_largest(get("table",
                            qualified_identifier(DefaultTable(order.id.table)),
                            d, f = 1))

\* The build's overflow checks show at the first overflow and stay as shown.
PostOrders ==
    \E order \in CreateInputs, f \in 0..3 :
        \E o \in {overflows(poisoned, db, order, f)} :
            \E checks \in IF overflow_checks = "unset" /\ o
                          THEN {"on", "off"} ELSE {overflow_checks} :
                /\ overflow_checks' = checks
                /\ Serve("handler_orders_insert", order, [f |-> f],
                         handler_orders_insert(poisoned, db, order, f, checks))

DeleteOrders ==
    \E order \in OrderTemplates, fault \in BOOLEAN :
        /\ UNCHANGED overflow_checks
        /\ Serve("handler_orders_delete", order, [fault |-> fault],
                 handler_orders_delete(poisoned, db, order, fault))

PostOrdersFinish ==
    \E order \in OrderTemplates, f \in 0..3 :
        /\ UNCHANGED overflow_checks
        /\ Serve("handler_orders_finish", order, [f |-> f],
                 handler_orders_finish(poisoned, db, order, f))

GetOffersTables ==
    \E bad \in BadSets :
        /\ UNCHANGED overflow_checks
        /\ Serve("handler_offers_tables", NoJson, [bad |-> bad],
                 handler_offers_tables(poisoned, db, bad))

GetServer ==
    \E id \in ReqTables, file_ok \in BOOLEAN, bad \in BadSets :
        /\ UNCHANGED overflow_checks
        /\ Serve("handler_server", id, [file_ok |-> file_ok, bad |-> bad],
                 handler_server(poisoned, db, id, file_ok, bad))

Next ==
    \/ GetTables
    \/ GetTablesSpecific
    \/ PostTables
    \/ DeleteTables
    \/ GetOffers
    \/ GetOffersSpecific
    \/ PostOffers
    \/ DeleteOffers
    \/ GetOrders
    \/ GetOrdersSpecific
    \/ PostOrders
    \/ DeleteOrders
    \/ PostOrdersFinish
    \/ GetOffersTables
    \/ GetServer

Spec == Init /\ [][Next]_vars

-----------------------------------------------------------------------------
(* The same server started on a keyspace that holds the seeded offers and  *)
(* tables and no order, taking create-order and finish-order requests      *)
(* only.                                                                   *)

\* The counter the table Stol 1 starts with.
StartCounts == {u32(0), u32(1), [hi |-> 65535, lo |-> 65534], U32_MAX}

InitNoOrders ==
    /\ \E c \in StartCounts :
          db = insert_each(<<VirtualTable(Stol1, c), VirtualTable(Stol, u32(0))>>,
                           insert_each(FillOffers, EmptyDb))
    /\ poisoned = FALSE
    /\ overflow_checks = "unset"
    /\ last = [op |-> "main", arg |-> NoJson, env |-> NoJson,
               resp |-> HttpResponse("", "", "", NoJson), before |-> EmptyDb,
               changed |-> TRUE]
    /\ issued = <<>>
    /\ nreq = 0
    /\ locked = FALSE
    /\ threads = [w \in Workers |-> Idle]

NextCreateFinish ==
    \/ PostOrders
    \/ PostOrdersFinish

SpecCreateFinish == InitNoOrders /\ [][NextCreateFinish]_vars

-----------------------------------------------------------------------------
(* The same server started on a database file that already holds entries   *)
(* its Order does not decode from, taking the requests about orders.       *)

\* An order written without its items, at the key of an open order of
\* Stol 1, and a table's bytes at the key of a finished order of Stol 2.
StaleEntries ==
    {<<qualified_identifier(Order(Stol1, u32(1), FALSE, <<>>)),
       ser_string(Stol1) \o ser_u32(u32(1)) \o ser_bool(FALSE)>>,
     <<qualified_identifier(Order(Stol2, u32(1), TRUE, <<>>)),
       serialize(VirtualTable(Stol2, u32(1)))>>}

RECURSIVE sled_insert_each(_, _)
sled_insert_each(entries, d) ==
    IF entries = {} THEN d
    ELSE LET e == CHOOSE x \in entries : TRUE
         IN sled_insert(sled_insert_each(entries \ {e}, d), e[1], e[2])

\* sled::open of the file as it was left, then fill_db.
InitStale ==
    /\ \E found \in SUBSET StaleEntries :
          db = fill_db(sled_insert_each(found, EmptyDb))
    /\ poisoned = FALSE
    /\ overflow_checks = "unset"
    /\ last = [op |-> "main", arg |-> NoJson, env |-> NoJson,
               resp |-> HttpResponse("", "", "", NoJson), before |-> EmptyDb,
               changed |-> TRUE]
    /\ issued = <<>>
    /\ nreq = 0
    /\ locked = FALSE
    /\ threads = [w \in Workers |-> Idle]

NextStale ==
    \/ GetOrders
    \/ GetOrdersSpecific
    \/ PostOrders
    \/ DeleteOrders
    \/ PostOrdersFinish

SpecStale == InitStale /\ [][NextStale]_vars

-----------------------------------------------------------------------------
(* The same server after it has served some create-orders for the table    *)
(* Stol 5, whose seeded counter is 7, taking the requests about orders.    *)

\* The create-orders served before, at most.
MaxServed == 3

\* The store and the numbers given after n create-orders for Stol 5.
RECURSIVE served(_)
served(n) ==
    LET next(before) ==
            LET with(out) ==
                    [db |-> out.db, issued |-> before.issued \o out.created]
            IN with(handler_orders_insert(FALSE, before.db,
                                          Order(Stol5, u32(0), FALSE, <<>>),
                                          0, "off"))
    IN IF n = 0 THEN [db |-> fill_db(EmptyDb), issued |-> <<>>]
       ELSE next(served(n - 1))

InitServed ==
    /\ \E n \in 0..MaxServed :
          /\ db = served(n).db
          /\ issued = served(n).issued
    /\ poisoned = FALSE
    /\ overflow_checks = "unset"
    /\ last = [op |-> "main", arg |-> NoJson, env |-> NoJson,
               resp |-> HttpResponse("", "", "", NoJson), before |-> EmptyDb,
               changed |-> TRUE]
    /\ nreq = 0
    /\ locked = FALSE
    /\ threads = [w \in Workers |-> Idle]

SpecServed == InitServed /\ [][NextStale]_vars

-----------------------------------------------------------------------------
(* The same handlers run by worker threads side by side, one sled call at  *)
(* a step.  A thread's place: "idle", "lock" (about to call db.lock()),    *)
(* then the sled call or file read it makes next under the guard.          *)

\* The lock taken whatever another thread holds.
mutex_lock_free(is_locked, is_poisoned) ==
    IF is_poisoned THEN "Err" ELSE "Ok"

\* db.lock(): blocks while another thread holds the guard, then fails when
\* a holder has panicked.
mutex_lock(is_locked, is_poisoned) ==
    IF is_locked THEN "Blocked"
    ELSE IF is_poisoned THEN "Err"
    ELSE "Ok"

\* The places at which a thread holds the guard.
Holding ==
    {"get", "insert_table", "insert_order", "remove", "insert", "scan",
     "read"}

Request(op, arg, env) == [op |-> op, arg |-> arg, env |-> env]

\* The requests the threads take: create-order and finish-order for the
\* table Stol 1, each whole or failing at its last write, a scan of all
\* orders, a lookup of the table, and the page with or without its file.
ThreadRequests ==
    {Request("handler_orders_insert", Order(Stol1, u32(0), FALSE, <<>>),
             [f |-> f]) : f \in {0, 3}}
    \cup {Request("handler_orders_finish", Order(Stol1, u32(2), FALSE, <<>>),
                  [f |-> f]) : f \in {0, 3}}
    \cup {Request("handler_orders_finish", Order(Stol1, u32(1), FALSE, <<>>),
                  [f |-> 0])}
    \cup {Request("handler_orders", [new |-> FALSE, table |-> None],
                  [bad |-> {}])}
    \cup {Request("handler_tables_specific", Stol1, [fault |-> FALSE])}
    \cup {Request("handler_server", Stol1, [file_ok |-> ok, bad |-> {}]) :
             ok \in BOOLEAN}

\* The first place of a handler under the guard.
first_call(op) ==
    CASE op \in {"handler_orders_insert", "handler_orders_finish",
                 "handler_tables_specific"} -> "get"
      [] op = "handler_orders" -> "scan"
      [] op = "handler_server" -> "read"

\* The handler a request is routed to, run whole on a store.
handle(p, d, r) ==
    CASE r.op = "handler_orders_insert" ->
           handler_orders_insert(p, d, r.arg, r.env.f, overflow_checks)
      [] r.op = "handler_orders_finish" ->
           handler_orders_finish(p, d, r.arg, r.env.f)
      [] r.op = "handler_orders" -> handler_orders(p, d, r.arg, r.env.bad)
      [] r.op = "handler_tables_specific" ->
           handler_tables_specific(p, d, r.arg, r.env.fault)
      [] r.op = "handler_server" ->
           handler_server(p, d, r.arg, r.env.file_ok, r.env.bad)

\* A worker takes a request.
Accept(w) ==
    /\ threads[w].pc = "idle"
    /\ nreq < MaxAccepted
    /\ \E r \in ThreadRequests :
          threads' = [threads EXCEPT ![w] =
                         [pc |-> "lock", op |-> r.op, arg |-> r.arg,
                          env |-> r.env, snap |-> db, cur |-> db,
                          loc |-> NoJson]]
    /\ nreq' = nreq + 1
    /\ UNCHANGED <<db, poisoned, overflow_checks, last, issued, locked>>

\* The handler's db.lock(): the guard, or the lock-failure answer.
Acquire(w) ==
    LET t == threads[w]
        locking(got) ==
            /\ got # "Blocked"
            /\ IF got = "Ok"
               THEN /\ locked' = TRUE
                    /\ threads' = [threads EXCEPT ![w] =
                                      [t EXCEPT !.pc = first_call(t.op),
                                                !.snap = db, !.cur = db]]
                    /\ UNCHANGED last
               ELSE /\ threads' = [threads EXCEPT ![w] = Idle]
                    /\ last' = [op |-> t.op, arg |-> t.arg, env |-> t.env,
                                resp |-> handle(TRUE, db, t).resp, before |-> db,
                                changed |-> FALSE]
                    /\ UNCHANGED locked
    IN /\ t.pc = "lock"
       /\ locking(mutex_lock(locked, poisoned))
       /\ UNCHANGED <<db, poisoned, overflow_checks, issued, nreq>>

\* A return that keeps the guard: the response goes out and the mutex stays
\* locked.
Return_holding(w, resp, d, created) ==
    /\ db' = d
    /\ threads' = [threads EXCEPT ![w] = Idle]
    /\ last' = [op |-> threads[w].op, arg |-> threads[w].arg,
                env |-> threads[w].env, resp |-> resp,
                before |-> threads[w].snap, changed |-> d # threads[w].snap]
    /\ issued' = issued \o created
    /\ UNCHANGED <<poisoned, overflow_checks, nreq, locked>>

\* The handler returns: the response goes out and the guard is dropped.
Return(w, resp, d, created) ==
    /\ db' = d
    /\ locked' = FALSE
    /\ threads' = [threads EXCEPT ![w] = Idle]
    /\ last' = [op |-> threads[w].op, arg |-> threads[w].arg,
                env |-> threads[w].env, resp |-> resp,
                before |-> threads[w].snap, changed |-> d # threads[w].snap]
    /\ issued' = issued \o created
    /\ UNCHANGED <<poisoned, overflow_checks, nreq>>

\* The handler goes on to its next sled call, holding the guard.
Continue(w, pc, d, loc) ==
    /\ db' = d
    /\ threads' = [threads EXCEPT ![w] =
                      [threads[w] EXCEPT !.pc = pc, !.cur = d, !.loc = loc]]
    /\ UNCHANGED <<poisoned, overflow_checks, last, issued, nreq, locked>>

\* The handler panics: the guard is dropped in the unwinding and poisons
\* the mutex.
Unwind(w) ==
    /\ poisoned' = TRUE
    /\ locked' = FALSE
    /\ threads' = [threads EXCEPT ![w] = Idle]
    /\ last' = [op |-> threads[w].op, arg |-> threads[w].arg,
                env |-> threads[w].env, resp |-> Panicked(db).resp,
                before |-> threads[w].snap, changed |-> TRUE]
    /\ UNCHANGED <<db, overflow_checks, issued, nreq>>

Failed(text) == HttpResponse("InternalServerError", "", text, NoJson)

\* create-order: the table's get and the sum.
CreateGet(w) ==
    LET order == threads[w].arg
        number(table, sum) ==
            IF sum.panic THEN Unwind(w)
            ELSE Continue(w, "insert_table", db,
                          [table |-> [table EXCEPT !.order_count = sum.val],
                           template |-> [order EXCEPT !.id.count = sum.val]])
        table_read(got) ==
            IF got.tag # "OkSome"
            THEN Return(w, Failed("Database failed."), db, <<>>)
            ELSE number(got.val, add_one(got.val.order_count, overflow_checks))
    IN /\ threads[w].pc = "get"
       /\ threads[w].op = "handler_orders_insert"
       /\ table_read(get("table",
                         qualified_identifier(DefaultTable(order.id.table)),
                         db, threads[w].env.f = 1))

\* create-order: the table's insert.
CreateInsertTable(w) ==
    LET table_written(w1) ==
            IF ~w1.ok THEN Return(w, Failed("Database failed."), w1.db, <<>>)
            ELSE Continue(w, "insert_order", w1.db, threads[w].loc)
    IN /\ threads[w].pc = "insert_table"
       /\ table_written(insert(threads[w].loc.table, db, threads[w].env.f = 2))

\* create-order: the order's insert.
CreateInsertOrder(w) ==
    LET order_written(w2) ==
            IF w2.ok
            THEN Return(w, HttpResponse("Ok", "",
                                        "Successfully created the order.",
                                        NoJson),
                        w2.db, <<threads[w].loc.template.id>>)
            ELSE Return(w, Failed("Database failed."), w2.db, <<>>)
    IN /\ threads[w].pc = "insert_order"
       /\ order_written(insert(threads[w].loc.template, db,
                               threads[w].env.f = 3))

\* finish-order: the order's get.
FinishGet(w) ==
    LET order_read(got) ==
            IF got.tag # "OkSome"
            THEN Return(w, Failed("Order doesn't exist."), db, <<>>)
            ELSE Continue(w, "remove", db,
                          [order |-> finished_order(got.val)])
    IN /\ threads[w].pc = "get"
       /\ threads[w].op = "handler_orders_finish"
       /\ order_read(get("order", qualified_identifier(threads[w].arg), db,
                         threads[w].env.f = 1))

\* finish-order: the remove at the key of the request's order.
FinishRemove(w) ==
    LET removed(w1) ==
            IF ~w1.ok THEN Return(w, Failed("Database failed."), w1.db, <<>>)
            ELSE Continue(w, "insert", w1.db, threads[w].loc)
    IN /\ threads[w].pc = "remove"
       /\ removed(remove(threads[w].arg, db, threads[w].env.f = 2))

\* finish-order: the insert of the finished order.
FinishInsert(w) ==
    LET order == threads[w].loc.order
        written(w2) ==
            IF w2.ok
            THEN Return(w, HttpResponse("Ok", "", "",
                                        [OrdersFinishResponseData |->
                                              [table |-> order.id.table]]),
                        w2.db, <<>>)
            ELSE Return(w, Failed("Database failed."), w2.db, <<>>)
    IN /\ threads[w].pc = "insert"
       /\ written(insert(order, db, threads[w].env.f = 3))

\* GET /orders: its scan.
Scan(w) ==
    LET respond(probable_orders) ==
            IF probable_orders.ok
            THEN Return(w, HttpResponse("Ok", "", "",
                                        [orders |-> probable_orders.val]),
                        db, <<>>)
            ELSE Return(w, Failed("Failed to get offers due to a database error."),
                        db, <<>>)
    IN /\ threads[w].pc = "scan"
       /\ threads[w].op = "handler_orders"
       /\ respond(orders_query(threads[w].arg, db, threads[w].env.bad))

\* GET /tables-{id}: its get.
Lookup(w) ==
    LET respond(got) ==
            CASE got.tag = "OkSome" ->
                   Return(w, HttpResponse("Ok", "", "",
                                          [TablesSpecificResponseData |->
                                              [table |-> got.val]]),
                          db, <<>>)
              [] got.tag = "OkNone" ->
                   Return(w, HttpResponse("NotFound", "", "Not found.",
                                          NoJson), db, <<>>)
              [] got.tag = "Err" ->
                   Return(w, HttpResponse("NotFound", "", "Database failed.",
                                          NoJson), db, <<>>)
    IN /\ threads[w].pc = "get"
       /\ threads[w].op = "handler_tables_specific"
       /\ respond(get("table",
                      qualified_identifier(DefaultTable(threads[w].arg)), db,
                      threads[w].env.fault))

\* The page: read_to_string(..).expect(..) under the guard.
ServerRead(w) ==
    /\ threads[w].pc = "read"
    /\ IF threads[w].env.file_ok THEN Continue(w, "scan", db, NoJson)
       ELSE Unwind(w)

\* The page: the scan of the tables.
ServerScan(w) ==
    LET tables_read(tables) ==
            IF ~tables.ok
            THEN Return(w, Failed("Database failed."), db, <<>>)
            ELSE IF threads[w].arg
                      \in {tables.val[i].name : i \in 1..Len(tables.val)}
            THEN Return(w, HttpResponse("Ok", "", "index.html", NoJson), db,
                        <<>>)
            ELSE Return(w, Failed("Table does not exist!"), db, <<>>)
    IN /\ threads[w].pc = "scan"
       /\ threads[w].op = "handler_server"
       /\ tables_read(get_all("table", db, threads[w].env.bad))

NextThreads ==
    \E w \in Workers :
        \/ Accept(w)
        \/ Acquire(w)
        \/ CreateGet(w)
        \/ CreateInsertTable(w)
        \/ CreateInsertOrder(w)
        \/ FinishGet(w)
        \/ FinishRemove(w)
        \/ FinishInsert(w)
        \/ Scan(w)
        \/ Lookup(w)
        \/ ServerRead(w)
        \/ ServerScan(w)

SpecThreads == Init /\ [][NextThreads]_vars

\* The steps a thread takes while it holds the guard: no handler awaits or
\* blocks between its db.lock() and its return.
Runs(w) ==
    \/ CreateGet(w)
    \/ CreateInsertTable(w)
    \/ CreateInsertOrder(w)
    \/ FinishGet(w)
    \/ FinishRemove(w)
    \/ FinishInsert(w)
    \/ Scan(w)
    \/ Lookup(w)
    \/ ServerRead(w)
    \/ ServerScan(w)

\* Fair scheduling: a thread that holds the guard keeps running, and a
\* thread that waits in db.lock() gets the mutex if it is free again and
\* again.  Each of these steps moves the thread to another place, and a
\* step of Runs(w) is possible exactly at the places where w holds the
\* guard: the first conjunct is WF_(threads[w].pc)(Runs(w)) written out.
FairThreads ==
    \A w \in Workers :
        /\ \/ []<>(threads[w].pc \notin Holding)
           \/ []<><<Runs(w)>>_(threads[w].pc)
        /\ SF_(threads[w].pc)(Acquire(w))

FairSpecThreads == SpecThreads /\ FairThreads

-----------------------------------------------------------------------------
(* What the store holds, read off the entries themselves. *)

\* The entries whose key names the kind before its first separator.
EntriesOf(kind, d) ==
    {i \in 1..Len(d) :
        database_element_get_kind(d[i][1]) = Some(namespace(kind))}

\* The records of a kind the store holds.
Stored(kind, d) == {deserialize(kind, d[i][2]).val : i \in EntriesOf(kind, d)}

Range(seq) == {seq[i] : i \in 1..Len(seq)}

\* b is a + 1 as numbers (no u32 follows the largest).
IsSucc(a, b) ==
    \/ a.lo < Limb - 1 /\ b = [hi |-> a.hi, lo |-> a.lo + 1]
    \/ a.lo = Limb - 1 /\ a.hi < Limb - 1 /\ b = [hi |-> a.hi + 1, lo |-> 0]

\* The stored counter of a table the store holds.
CounterOf(name, d) ==
    deserialize("table", sled_get(d, qualified_identifier(DefaultTable(name))))
        .val.order_count

\* The last request was this handler's and was answered 200.
Succeeded(op) == last.op = op /\ last.resp.code = "Ok"

-----------------------------------------------------------------------------
(* Order numbering. *)

\* C1: the numbers given to the orders of one table never repeat, whatever
\* requests, a table's insertion and removal among them, come in between:
\* no two of the orders created so far have the same table and number.
C1_NumbersNeverRepeat ==
    \A i, j \in 1..Len(issued) : i # j => issued[i] # issued[j]

\* C2: a create-order that succeeds on a table whose stored counter is c
\* gives the order the number c + 1 and leaves the counter at c + 1.
C2_NextNumber ==
    Succeeded("handler_orders_insert") =>
        /\ IsSucc(CounterOf(last.arg.id.table, last.before),
                  issued[Len(issued)].count)
        /\ IsSucc(CounterOf(last.arg.id.table, last.before),
                  CounterOf(last.arg.id.table, db))

-----------------------------------------------------------------------------
(* Finishing an order. *)

\* The record the last request named: the one stored at the key of its
\* template before the request.
Named(template) ==
    deserialize(template.kind,
                sled_get(last.before, qualified_identifier(template))).val

\* The orders a status scan returns when the iterator yields no Err.
OrdersOfStatus(finished, d) ==
    Range(get_status(Order(<<>>, u32(0), finished, <<>>), d, {}).val)

\* C3: after a finish-order that succeeds on an order stored as new, the
\* order's new key is gone, the status scan for new does not return the
\* order, and the status scan for old returns it with the table, the number
\* and the line items it was stored with.
C3_StatusTransition ==
    (Succeeded("handler_orders_finish") /\ ~last.arg.finished) =>
        /\ ~sled_contains_key(db, qualified_identifier(last.arg))
        /\ \A r \in OrdersOfStatus(FALSE, db) : r.id # last.arg.id
        /\ Order(last.arg.id.table, last.arg.id.count, TRUE,
                 Named(last.arg).items) \in OrdersOfStatus(TRUE, db)

\* An order that create-order made, with line items, has been finished.
C3_Witness ==
    /\ Succeeded("handler_orders_finish")
    /\ ~last.arg.finished
    /\ last.arg.id \in Range(issued)
    /\ Named(last.arg).items # <<>>
    /\ Named(last.arg).id = last.arg.id

\* C4: from a keyspace without orders, after any create-order and
\* finish-order requests, no two stored entries hold the same order
\* (table and number): the order is at its new key or at its old key,
\* never at both.
C4_OneKeyPerOrder ==
    /\ \A i, j \in EntriesOf("order", db) :
          deserialize("order", db[i][2]).val.id
            = deserialize("order", db[j][2]).val.id => i = j
    /\ \A id \in Range(issued) :
          ~ /\ sled_contains_key(db, qualified_identifier(
                                         Order(id.table, id.count, FALSE, <<>>)))
            /\ sled_contains_key(db, qualified_identifier(
                                         Order(id.table, id.count, TRUE, <<>>)))

\* Two orders were created and one of them has been finished.
C4_Witness ==
    /\ Succeeded("handler_orders_finish")
    /\ ~last.arg.finished
    /\ last.arg.id \in Range(issued)
    /\ Cardinality(EntriesOf("order", db)) = 2
    /\ {r.finished : r \in Stored("order", db)} = BOOLEAN

-----------------------------------------------------------------------------
(* The scans.  The properties are about scans whose iterator yields no     *)
(* Err.                                                                    *)

\* The stored orders of a table and a status.
OrdersOf(table, finished, orders) ==
    {r \in orders : r.id.table = table /\ r.finished = finished}

\* A scan's result is exactly the records wanted, each once.
Exactly(res, wanted) ==
    res.ok /\ Range(res.val) = wanted /\ Len(res.val) = Cardinality(wanted)

\* What the group scan for a table and a status returns.
GroupScan(table, finished, d) ==
    get_templated(Order(table, u32(0), finished, <<>>), d, {})

\* The table names a group scan is asked for.
GroupTables == ReqTables \cup {Stol2}

\* C5: the group scan for a table and a status returns exactly the stored
\* orders of that table and status, also when one table's name is a leading
\* part of another's.
C5_GroupScanExact ==
    LET orders == Stored("order", db) IN
    \A t \in GroupTables, f \in BOOLEAN :
        Exactly(GroupScan(t, f, db), OrdersOf(t, f, orders))

\* C6: with offers, tables and orders stored together, the scan of a kind
\* returns exactly the stored records of the kind, each once, and the status
\* scan of the orders returns exactly the stored orders of the status, each
\* once, whether or not the template names a table.
C6_KindStatusScanExact ==
    LET orders == Stored("order", db) IN
    /\ \A k \in Kinds : Exactly(get_all(k, db, {}), Stored(k, db))
    /\ \A t \in {<<>>, Stol1}, f \in BOOLEAN :
          Exactly(get_status(Order(t, u32(0), f, <<>>), db, {}),
                  {r \in orders : r.finished = f})

\* The three kinds and both statuses are stored, and GET /orders has just
\* answered a status scan that returned some of the orders and not all.
C6_Witness ==
    /\ \A k \in Kinds : Stored(k, db) # {}
    /\ {r.finished : r \in Stored("order", db)} = BOOLEAN
    /\ Succeeded("handler_orders")
    /\ last.env.bad = {}
    /\ last.arg.new /\ ~last.arg.table.some
    /\ Range(last.resp.json.orders) = {r \in Stored("order", db) : ~r.finished}
    /\ Range(last.resp.json.orders) # Stored("order", db)

-----------------------------------------------------------------------------
(* Writing, reading back and removing one record. *)

\* The requests that insert a record, and the record the last one inserted:
\* the body of POST /tables and POST /offers, the body of POST /orders with
\* the number it was given, the order finish-order read with its flag set.
Inserts ==
    {"handler_tables_insert", "handler_offers_insert",
     "handler_orders_insert", "handler_orders_finish"}

Inserted ==
    CASE last.op = "handler_orders_insert" ->
           [last.arg EXCEPT !.id.count = issued[Len(issued)].count]
      [] last.op = "handler_orders_finish" ->
           [Named(last.arg) EXCEPT !.finished = TRUE]
      [] OTHER -> last.arg

\* C8: after an insert that succeeds, the lookup at the qualified key of the
\* record inserted returns a record equal to it, for a table, an offer and
\* an order.
C8_RoundTrip ==
    (last.op \in Inserts /\ last.resp.code = "Ok") =>
        get(Inserted.kind, qualified_identifier(Inserted), db, FALSE)
          = [tag |-> "OkSome", val |-> Inserted]

\* An order with a line item and a number past the first has been created
\* and reads back as written.
C8_Witness ==
    /\ Succeeded("handler_orders_insert")
    /\ Inserted.items # <<>>
    /\ Inserted.id.count = u32(2)
    /\ sled_contains_key(db, qualified_identifier(Inserted))
    /\ deserialize("order", sled_get(db, qualified_identifier(Inserted))).val
         = Inserted

\* The requests that remove a record, and the template the last one removed
\* by.
Removes ==
    {"handler_tables_delete", "handler_offers_delete", "handler_orders_delete"}

Removed ==
    CASE last.op = "handler_tables_delete" -> DefaultTable(last.arg)
      [] last.op = "handler_offers_delete" -> DefaultOffer(last.arg)
      [] OTHER -> last.arg

\* The scans of the store that return the record.
ScansWith(v, template, d) ==
    {n \in 1..3 :
        v \in Range((CASE n = 1 -> get_all(template.kind, d, {})
                       [] n = 2 -> get_status(template, d, {})
                       [] n = 3 -> get_templated(template, d, {})).val)}

\* C9: after a removal that succeeds, exists(record) is false, and the
\* record that was stored at the key is in none of the scans that returned
\* it before.
C9_Removal ==
    (last.op \in Removes /\ last.resp.code = "Ok") =>
        /\ exists(Removed, db, FALSE) = Ok(FALSE)
        /\ sled_contains_key(last.before, qualified_identifier(Removed)) =>
              ScansWith(Named(Removed), Removed, db) = {}

\* A stored order that all three scans returned has been removed.
C9_Witness ==
    /\ Succeeded("handler_orders_delete")
    /\ sled_contains_key(last.before, qualified_identifier(Removed))
    /\ ScansWith(Named(Removed), Removed, last.before) = 1..3

\* The lookups that answer GET /tables/specific, /offers/specific and
\* /orders/specific, and the template the last request looked up.
Lookups ==
    {"handler_tables_specific", "handler_offers_specific",
     "handler_orders_specific"}

LookedUp ==
    CASE last.op = "handler_tables_specific" -> DefaultTable(last.arg)
      [] last.op = "handler_offers_specific" -> DefaultOffer(last.arg)
      [] OTHER -> last.arg

\* The templates the requests can name.
Templates ==
    OrderTemplates \cup {DefaultTable(t) : t \in ReqTables}
                   \cup {DefaultOffer(o) : o \in ReqOffers}

\* C10: when sled's lookup itself does not fail, the lookup of a key the
\* store does not hold, never inserted or inserted and removed, returns
\* Ok(None) and not Err; the request that made it is answered with the
\* not-found response and leaves the keyspace as it was.
C10_NotFound ==
    /\ \A t \in Templates :
          ~sled_contains_key(db, qualified_identifier(t)) =>
              get(t.kind, qualified_identifier(t), db, FALSE)
                = [tag |-> "OkNone"]
    /\ ( /\ last.op \in Lookups
         /\ ~poisoned
         /\ ~last.env.fault
         /\ ~sled_contains_key(last.before, qualified_identifier(LookedUp)) )
       => /\ db = last.before
          /\ last.resp.code = "NotFound"
          /\ "Not found." = last.resp.body \/ "Does not exist!" = last.resp.reason

\* A seeded order has been removed and GET /orders/specific for it has just
\* been answered not found.
C10_Witness ==
    /\ last.op = "handler_orders_specific"
    /\ ~last.env.fault
    /\ qualified_identifier(last.arg) \in Keys(fill_db(EmptyDb))
    /\ ~sled_contains_key(db, qualified_identifier(last.arg))
    /\ last.resp.code = "NotFound"
    /\ db = last.before

-----------------------------------------------------------------------------
(* Responses. *)

\* The last request met a failure: the mutex was poisoned when it asked for
\* the lock, or the sled call it made returned Err.
LockFailed == poisoned /\ last.resp.code # "Panic"

StoreFailed ==
    /\ ~LockFailed
    /\ "fault" \in DOMAIN last.env
    /\ last.env.fault

\* C11: a handler answers "missing resource" (404) only when its lookup
\* found no entry at the key, and answers "service failure" (500) to every
\* lock failure and every store error.
C11_OutcomeMapping ==
    /\ last.resp.code = "NotFound" =>
          /\ last.op \in Lookups
          /\ ~LockFailed /\ ~StoreFailed
          /\ ~sled_contains_key(last.before, qualified_identifier(LookedUp))
    /\ (LockFailed \/ StoreFailed) => last.resp.code = "InternalServerError"

-----------------------------------------------------------------------------
(* Requests served side by side. *)

\* The threads that hold the guard.
Holders == {w \in Workers : threads[w].pc \in Holding}

\* Thread w ends its handler in this step, by a response or by a panic.
Returns(w) == threads[w].pc \in Holding /\ threads'[w].pc = "idle"

\* The step leaves what the handler run whole on the store found at
\* db.lock() leaves: its response, its store, its poisoning of the mutex.
AsWhole(w) ==
    LET same(out) ==
            /\ last'.resp = out.resp
            /\ last'.before = threads[w].snap
            /\ db' = out.db
            /\ poisoned' = out.panic
    IN same(handle(FALSE, threads[w].snap, threads[w]))

\* C12: at most one thread holds the lock, it holds it from its first store
\* operation to its return, between its operations the store is as its own
\* last operation left it, and every request ends with the response and the
\* store of the handler run whole on the store it found when it took the
\* lock.
C12_RequestIsolation ==
    [][/\ Cardinality(Holders') <= 1
       /\ locked' <=> Holders' # {}
       /\ \A w \in Holders' : db' = threads'[w].cur
       /\ \A w \in Workers : Returns(w) => AsWhole(w)]_vars

\* A finish-order has removed the order and not yet inserted it, the order
\* is stored under neither key, and the other thread, sent to scan the
\* orders, waits at db.lock().
C12_Witness ==
    \E w, v \in Workers :
        /\ threads[w].pc = "insert"
        /\ ~sled_contains_key(db, qualified_identifier(threads[w].arg))
        /\ ~sled_contains_key(db, qualified_identifier(threads[w].loc.order))
        /\ sled_contains_key(threads[w].snap,
                             qualified_identifier(threads[w].arg))
        /\ threads[v].pc = "lock"
        /\ threads[v].op = "handler_orders"
        /\ mutex_lock(locked, poisoned) = "Blocked"

\* b is a grown by k, no sum passing the largest u32.
RECURSIVE GrownBy(_, _, _)
GrownBy(a, b, k) ==
    IF k = 0 THEN a = b
    ELSE a # U32_MAX /\ GrownBy(wrapping_add1(a), b, k - 1)

\* The counter Stol 1 is seeded with.
SeededCounter == CounterOf(Stol1, fill_db(EmptyDb))

PairwiseDistinct(seq) ==
    \A i, j \in 1..Len(seq) : i # j => seq[i] # seq[j]

\* Thread w's create-order writes the table in this step.
WritesTable(w) ==
    /\ threads[w].pc = "insert_table"
    /\ threads'[w].pc = "insert_order"

-----------------------------------------------------------------------------
(* The poisoned mutex. *)

\* The response is the one a handler gives when db.lock() fails.
IsLockFailure(resp) == DEADLOCK \in {resp.body, resp.reason}

\* C14: once a handler has panicked under the lock, the mutex stays
\* poisoned, no later request changes the store, and every later request,
\* whatever its sled calls would have done, is answered with the
\* lock-failure text, which no request served under the lock is answered
\* with.
C14_PoisonPermanent ==
    [][/\ poisoned => (poisoned' /\ db' = db)
       /\ poisoned <=> IsLockFailure(last'.resp)]_vars

\* After a panic under the lock, a create-order whose sled calls would all
\* have succeeded has been refused, and the table it names is stored.
C14_Witness ==
    /\ poisoned
    /\ last.op = "handler_orders_insert"
    /\ last.env.f = 0
    /\ IsLockFailure(last.resp)
    /\ sled_contains_key(db, qualified_identifier(DefaultTable(last.arg.id.table)))
    /\ db = last.before

-----------------------------------------------------------------------------
(* What create-order and finish-order write. *)

\* The keys of a kind at which the store holds another value than before.
Written(kind, before, d) ==
    {d[i][1] : i \in {j \in EntriesOf(kind, d) :
                         \/ ~sled_contains_key(before, d[j][1])
                         \/ sled_get(before, d[j][1]) # d[j][2]}}

\* The key of the open order of a table with the table's stored counter.
NewOrderKey(table, d) ==
    qualified_identifier(Order(table, CounterOf(table, d), FALSE, <<>>))

\* C15: after a create-order that succeeds, the order it wrote is stored at
\* the key of status "new", the requested table and the table's new counter,
\* and it wrote no order at another key, whatever count and finished flag
\* the request carried.
C15_StoredAsNew ==
    Succeeded("handler_orders_insert") =>
        /\ sled_contains_key(db, NewOrderKey(last.arg.id.table, db))
        /\ Written("order", last.before, db)
             \subseteq {NewOrderKey(last.arg.id.table, db)}

\* The store holds a table at the exact key of the name.
HasTable(name, d) ==
    sled_contains_key(d, qualified_identifier(DefaultTable(name)))

\* C16: a create-order that finds no table at the exact key of the
\* requested name, or whose lookup of it fails, is answered with a failure
\* and leaves the store as it was.
C16_CreatePrecondition ==
    (/\ last.op = "handler_orders_insert"
     /\ last.env.f = 1 \/ ~HasTable(last.arg.id.table, last.before)) =>
        /\ last.resp.code = "InternalServerError"
        /\ db = last.before

\* A create-order for the table Stol has failed under the lock with all
\* its sled calls sound: no table is stored at the key of Stol, though
\* one is at the key of Stol 1, which begins with it.
C16_Witness ==
    /\ last.op = "handler_orders_insert"
    /\ last.env.f = 0
    /\ ~IsLockFailure(last.resp)
    /\ last.arg.id.table = Stol
    /\ ~HasTable(Stol, last.before)
    /\ HasTable(Stol1, last.before)
    /\ last.resp.code = "InternalServerError"
    /\ db = last.before

\* The store holds an entry at the key that decodes as a record of the kind.
Decodes(kind, key, d) ==
    sled_contains_key(d, key) /\ deserialize(kind, sled_get(d, key)).ok

\* C17: a finish-order that finds no order at the exact key of the
\* request's order, or an entry there that does not decode, or whose lookup
\* fails, is answered with a failure and leaves the store as it was:
\* nothing is removed and nothing inserted.
C17_FinishPrecondition ==
    (/\ last.op = "handler_orders_finish"
     /\ \/ last.env.f = 1
        \/ ~Decodes("order", qualified_identifier(last.arg), last.before)) =>
        /\ last.resp.code = "InternalServerError"
        /\ db = last.before

\* A finish-order has failed under the lock with all its sled calls sound:
\* the entry at the key of its order does not decode, and is still stored.
C17_Witness ==
    /\ last.op = "handler_orders_finish"
    /\ last.env.f = 0
    /\ ~IsLockFailure(last.resp)
    /\ sled_contains_key(last.before, qualified_identifier(last.arg))
    /\ ~Decodes("order", qualified_identifier(last.arg), last.before)
    /\ last.resp.body = "Order doesn't exist."
    /\ sled_contains_key(db, qualified_identifier(last.arg))
    /\ db = last.before

\* The store holds the order at neither of its keys: no entry at the open
\* key, and at the finished key no entry that is the order finished.
UnderNeitherKey(order, d) ==
    LET old == finished_order(order) IN
    /\ ~sled_contains_key(d, qualified_identifier(order))
    /\ sled_contains_key(d, qualified_identifier(old)) =>
          sled_get(d, qualified_identifier(old)) # serialize(old)

\* C18: finish-order removes the entry at the open key before it inserts
\* at the finished key: where its thread stands between the two calls (and
\* where a stop of the process would leave the store), and after an insert
\* that fails, the order it read is stored under neither key, and the store
\* is the one the request found less that entry: nothing is restored.
C18_FinishNotAtomic ==
    [][\A w \in Workers :
          /\ threads'[w].pc = "insert" =>
                /\ UnderNeitherKey(
                      [threads'[w].loc.order EXCEPT !.finished = FALSE], db')
                /\ db' = sled_remove(threads'[w].snap,
                                     qualified_identifier(threads'[w].arg))
          /\ (Returns(w) /\ threads[w].pc = "insert" /\ threads[w].env.f = 3) =>
                /\ last'.resp.code = "InternalServerError"
                /\ UnderNeitherKey(
                      [threads[w].loc.order EXCEPT !.finished = FALSE], db')
                /\ db' = sled_remove(threads[w].snap,
                                     qualified_identifier(threads[w].arg))]_vars

\* A finish-order of a stored open order has been answered with a failure
\* after its remove: the store is the one it found less the order's entry,
\* and holds no entry at either key of the order.
C18_Witness ==
    /\ last.op = "handler_orders_finish"
    /\ last.env.f = 3
    /\ last.resp.body = "Database failed."
    /\ Decodes("order", qualified_identifier(last.arg), last.before)
    /\ ~sled_contains_key(db, qualified_identifier(last.arg))
    /\ ~sled_contains_key(db, qualified_identifier(finished_order(last.arg)))
    /\ db = sled_remove(last.before, qualified_identifier(last.arg))
    /\ db # last.before

\* The last request was a create-order whose table write succeeded and
\* whose order write failed.
PartialCreate ==
    /\ last.op = "handler_orders_insert"
    /\ last.env.f = 3
    /\ last.resp.body = "Database failed."
    /\ HasTable(last.arg.id.table, last.before)

\* The store holds an order of the table with the number, open or finished.
HasOrder(table, count, d) ==
    \E f \in BOOLEAN :
        sled_contains_key(d, qualified_identifier(Order(table, count, f, <<>>)))

\* C19: after a create-order whose table write succeeded and whose order
\* write failed, the store is the one the request found with the table's
\* counter advanced by one, no order of the table has that number, and the
\* next create-order for the table is not given it.
C19_PartialFailure ==
    [][LET t == last.arg.id.table
           skipped == CounterOf(t, db)
       IN /\ PartialCreate' =>
                LET t2 == last'.arg.id.table
                    c2 == CounterOf(t2, db')
                IN /\ IsSucc(CounterOf(t2, last'.before), c2)
                   /\ db' = insert(VirtualTable(t2, c2), last'.before, FALSE).db
                   /\ ~HasOrder(t2, c2, db')
          /\ (PartialCreate /\ issued' # issued) =>
                issued'[Len(issued')] # [table |-> t, count |-> skipped]]_vars

-----------------------------------------------------------------------------
(* The scans over entries that do not decode. *)

\* The entries a scan is given when the iterator yields Err at the places
\* of bad (none, or the first).
Yielded(kvs, bad) == IF 1 \in bad /\ kvs # <<>> THEN Tail(kvs) ELSE kvs

\* The result is Err alone when one of the entries given does not decode,
\* and else all of them decoded, in their order.
ScanPolicy(kind, kvs, res) ==
    IF \E i \in 1..Len(kvs) : ~deserialize(kind, kvs[i][2]).ok
    THEN res = Err
    ELSE /\ res.ok
         /\ Len(res.val) = Len(kvs)
         /\ \A i \in 1..Len(kvs) : res.val[i] = deserialize(kind, kvs[i][2]).val

\* The templates of the group scans of orders.
ScanTemplates ==
    {Order(t, u32(0), f, <<>>) : t \in {Stol1, Stol2}, f \in BOOLEAN}

\* C20: the group scan, the status scan and the scan of all orders return
\* Err, and no orders, when an entry the iterator gives them does not decode
\* as an order; an entry in whose place the iterator yields Err is passed
\* over, and the scan returns the other entries decoded.
C20_ScanFailurePolicy ==
    \A bad \in BadSets :
        /\ ScanPolicy("order",
                      Yielded(sled_scan_prefix(db, namespace("order")), bad),
                      get_all("order", db, bad))
        /\ \A r \in ScanTemplates :
              ScanPolicy("order",
                  Yielded(sled_scan_prefix(db,
                            qualified_identifier_mainless(r)), bad),
                  get_templated(r, db, bad))
        /\ \A f \in BOOLEAN :
              ScanPolicy("order",
                  Yielded(sled_scan_prefix(db,
                            qualified_identifier_mainless_secondless(
                                Order(<<>>, u32(0), f, <<>>))), bad),
                  get_status(Order(<<>>, u32(0), f, <<>>), db, bad))

\* GET /orders for a table has answered with the table's other orders,
\* the iterator having yielded Err in the place of the first entry of the
\* group, which does not decode; the same scan given that entry is Err.
C20_Witness ==
    /\ Succeeded("handler_orders")
    /\ last.env.bad = {1}
    /\ last.arg.table.some
    /\ last.resp.json.orders # <<>>
    /\ LET r == Order(last.arg.table.val, u32(0), ~last.arg.new, <<>>)
           kvs == sled_scan_prefix(db, qualified_identifier_mainless(r))
       IN /\ ~deserialize("order", kvs[1][2]).ok
          /\ get_templated(r, db, {}) = Err
          /\ get_templated(r, db, {1}) = Ok(last.resp.json.orders)

-----------------------------------------------------------------------------
(* The order of what a scan returns. *)

\* The records are in ascending byte order of their keys.
Ascending(records) ==
    \A i \in 1..Len(records) - 1 :
        LexLess(qualified_identifier(records[i]),
                qualified_identifier(records[i + 1]))

\* C21: every scan returns its records in ascending byte order of their
\* keys, whose last part is the order's number in decimal digits without
\* padding.
C21_ScanOrder ==
    \A bad \in BadSets :
        /\ \A k \in Kinds : Ascending(get_all(k, db, bad).val)
        /\ \A f \in BOOLEAN :
              /\ Ascending(get_templated(Order(Stol5, u32(0), f, <<>>), db,
                                         bad).val)
              /\ Ascending(get_status(Order(<<>>, u32(0), f, <<>>), db,
                                      bad).val)

\* GET /orders has returned two orders of one table and one status, the
\* one with the number 10 before the one with the number 4.
C21_Witness ==
    /\ Succeeded("handler_orders")
    /\ \E i, j \in 1..Len(last.resp.json.orders) :
          LET a == last.resp.json.orders[i]
              b == last.resp.json.orders[j]
          IN /\ i < j
             /\ a.id.table = b.id.table
             /\ a.finished = b.finished
             /\ a.id.count = u32(10)
             /\ b.id.count = u32(4)

-----------------------------------------------------------------------------
(* What one insert and one remove leave alone. *)

\* The two stores hold the same keys with the same values, but for key.
SameElsewhere(before, after, key) ==
    \A k \in (Keys(before) \cup Keys(after)) \ {key} :
        /\ sled_contains_key(before, k)
        /\ sled_contains_key(after, k)
        /\ sled_get(before, k) = sled_get(after, k)

\* The store holds the record's bytes at the record's key, once.
HoldsOnce(r, d) ==
    /\ Cardinality({i \in 1..Len(d) : d[i][1] = qualified_identifier(r)}) = 1
    /\ sled_get(d, qualified_identifier(r)) = serialize(r)

\* The insert of r into before leaves after.
InsertedInto(r, before, after) ==
    /\ HoldsOnce(r, after)
    /\ SameElsewhere(before, after, qualified_identifier(r))

\* Records to insert: a table and an order at keys the seed fills, with
\* other values, and an offer at a key it leaves free.
InsertProbes ==
    {VirtualTable(Stol1, U32_MAX),
     Order(Stol1, u32(2), FALSE, <<>>),
     Offer(Cola, <<>>, u32(3), u32(10))}

\* C22: an insert that succeeds leaves the record's bytes at the record's
\* key, in the place of what was stored there, and every other entry as it
\* was; the same insert once more changes nothing.  This holds of the
\* inserts of POST /tables and POST /offers and of an insert into every
\* store reached.
C22_InsertInPlace ==
    /\ (last.op \in {"handler_tables_insert", "handler_offers_insert"}
          /\ last.resp.code = "Ok") =>
            InsertedInto(last.arg, last.before, db)
    /\ \A r \in InsertProbes :
          LET once == insert(r, db, FALSE).db IN
          /\ InsertedInto(r, db, once)
          /\ insert(r, once, FALSE).db = once

\* POST /tables has written a table over the stored one of the same name,
\* whose counter was another: the store has as many entries as before.
C22_Witness ==
    /\ Succeeded("handler_tables_insert")
    /\ HasTable(last.arg.name, last.before)
    /\ CounterOf(last.arg.name, last.before) # last.arg.order_count
    /\ CounterOf(last.arg.name, db) = last.arg.order_count
    /\ Len(db) = Len(last.before)

\* The removal of r from before leaves after.
RemovedFrom(r, before, after) ==
    /\ ~sled_contains_key(after, qualified_identifier(r))
    /\ SameElsewhere(before, after, qualified_identifier(r))
    /\ ~sled_contains_key(before, qualified_identifier(r)) => after = before

\* Records to remove: a table that has orders, a table whose name begins
\* the names of the others, a stored order, and an order never stored.
RemoveProbes ==
    {DefaultTable(Stol2), DefaultTable(Stol),
     Order(Stol3, u32(3), FALSE, <<>>), Order(Stol3, u32(9), TRUE, <<>>)}

\* C23: a removal that succeeds leaves no entry at the record's key and
\* every other entry as it was, the orders of a removed table among them;
\* with no entry at the key it succeeds and leaves the store as it was.
\* This holds of the removals of the three DELETE requests and of a removal
\* from every store reached.
C23_RemoveOneKey ==
    /\ (last.op \in Removes /\ ~IsLockFailure(last.resp) /\ ~last.env.fault) =>
          /\ last.resp.code = "Ok"
          /\ RemovedFrom(Removed, last.before, db)
    /\ \A r \in RemoveProbes :
          /\ remove(r, db, FALSE).ok
          /\ RemovedFrom(r, db, remove(r, db, FALSE).db)

\* DELETE /tables has removed the table Stol 1, and an order of Stol 1 is
\* still stored.
C23_Witness ==
    /\ Succeeded("handler_tables_delete")
    /\ last.arg = Stol1
    /\ HasTable(Stol1, last.before)
    /\ ~HasTable(Stol1, db)
    /\ \E r \in Stored("order", db) : r.id.table = Stol1

-----------------------------------------------------------------------------
(* The key codec. *)

\* What a record's key is made of.
KeyParts(r) ==
    <<namespace(r.kind), status(r), secondary_identifiers(r),
      main_identifier(r)>>

\* Records that agree in all parts of their keys but one: orders of one
\* table and number in both statuses, of one number and two tables of
\* which one name begins the other and ends where a number could begin,
\* and an offer, a table and an order named alike.
KeyProbes ==
    {Order(Stol1, u32(1), FALSE, <<>>), Order(Stol1, u32(1), TRUE, <<>>),
     Order(Stol, u32(1), FALSE, <<>>), Order(Stol1, u32(11), FALSE, <<>>),
     Order(<<>>, u32(1), FALSE, <<>>),
     VirtualTable(Stol1, u32(0)), VirtualTable(<<"1">>, u32(0)),
     Offer(Stol1, <<>>, u32(0), u32(0))}

\* C24: two records have the same key only when their namespace, status
\* tags, secondary identifiers and main identifier are the same, and the
\* namespace begins the key without the secondary and main identifiers,
\* which begins the key without the main identifier, which begins the key;
\* for the records stored and a set of records that differ in one part.
C24_KeyUnambiguous ==
    LET records == UNION {Stored(k, db) : k \in Kinds} \cup KeyProbes
        keyed == {<<qualified_identifier(r), KeyParts(r)>> : r \in records}
    IN /\ \A p, q \in keyed : p[1] = q[1] => p[2] = q[2]
       /\ \A r \in records :
             /\ starts_with(qualified_identifier_mainless_secondless(r),
                            namespace(r.kind))
             /\ starts_with(qualified_identifier_mainless(r),
                            qualified_identifier_mainless_secondless(r))
             /\ starts_with(qualified_identifier(r),
                            qualified_identifier_mainless(r))

\* A create-order has succeeded, and the store holds the order under a
\* key that differs from the key of a stored order of the same number and
\* status only in the table.
C24_Witness ==
    /\ Succeeded("handler_orders_insert")
    /\ \E r1, r2 \in Stored("order", db) :
          /\ r1.id.table # r2.id.table
          /\ r1.id.count = r2.id.count
          /\ r1.id = issued[Len(issued)]
          /\ r1.finished = r2.finished
          /\ qualified_identifier(r1) # qualified_identifier(r2)
          /\ sled_contains_key(db, qualified_identifier(r1))
          /\ sled_contains_key(db, qualified_identifier(r2))

-----------------------------------------------------------------------------
(* The counter at the largest u32. *)

\* C25: whatever counter a create-order finds, the largest u32 included,
\* it never leaves a smaller one, and when it succeeds the counter it
\* leaves is the one found grown by one and is the number of the order.
C25_NeverWraps ==
    (last.op = "handler_orders_insert"
       /\ HasTable(last.arg.id.table, last.before)) =>
        LET c == CounterOf(last.arg.id.table, last.before)
            c2 == CounterOf(last.arg.id.table, db)
        IN /\ u32_le(c, c2)
           /\ last.resp.code = "Ok" =>
                 /\ GrownBy(c, c2, 1)
                 /\ issued[Len(issued)].count = c2

-----------------------------------------------------------------------------
(* Keys and the values stored at them. *)

\* The key of an order written out: the namespace, the status named, the
\* table and the number in decimal.
OrderKeyText(tag, table, count) ==
    join(<<ORDER_NAMESPACE, <<"(">> \o tag \o <<")">>, table,
           to_string(count)>>, QUALIFIED_SEPARATOR)

\* The entry at place i of the store is a record of the kind stored at its
\* own key; an order is open under "new" and finished under "old", with the
\* table and the number of the key.
AgreesAt(kind, i, d) ==
    LET agrees(e) ==
            /\ e.ok
            /\ d[i][1] = qualified_identifier(e.val)
            /\ kind = "order" =>
                  /\ d[i][1] = OrderKeyText(IF e.val.finished
                                                THEN <<"o","l","d">>
                                                ELSE <<"n","e","w">>,
                                            e.val.id.table, e.val.id.count)
                  /\ starts_with(d[i][1], OrderKeyText(<<"n","e","w">>, <<>>, u32(0)))
                        => ~e.val.finished
    IN agrees(deserialize(kind, d[i][2]))

\* C26: in every reachable state every entry of the store belongs to a
\* kind, decodes as a record of it and sits at the key of that record; an
\* order under a "new" key holds finished = FALSE and one under an "old" key
\* finished = TRUE, with the table and the number of its key.
C26_KeyMatchesValue ==
    /\ \A i \in 1..Len(db) : \E kind \in Kinds : i \in EntriesOf(kind, db)
    /\ \A kind \in Kinds : \A i \in EntriesOf(kind, db) : AgreesAt(kind, i, db)

\* A finish-order succeeded and the store holds the order it named as a
\* finished one under "old", next to open orders under "new".
C26_Witness ==
    /\ Succeeded("handler_orders_finish")
    /\ sled_contains_key(db, OrderKeyText(<<"o","l","d">>, last.arg.id.table,
                                          last.arg.id.count))
    /\ ~sled_contains_key(last.before,
                          OrderKeyText(<<"o","l","d">>, last.arg.id.table,
                                       last.arg.id.count))
    /\ \E i \in EntriesOf("order", db) : ~deserialize("order", db[i][2]).val.finished

-----------------------------------------------------------------------------
(* Numbers given and the counter they came from. *)

\* C27: from a store without orders, under create-order and finish-order
\* calls with any failure of their writes, every stored order of a table
\* has a number less than or equal to the stored counter of that table.
C27_NumbersWithinCounter ==
    \A order \in Stored("order", db) :
        \E table \in Stored("table", db) :
            /\ table.name = order.id.table
            /\ u32_le(order.id.count, table.order_count)

\* C28: a create-order that succeeds wrote its order at a key that held no
\* entry before the call, and every order stored before the call is stored
\* after it with the same value.
C28_FreshKey ==
    Succeeded("handler_orders_insert") =>
        /\ ~sled_contains_key(
               last.before,
               qualified_identifier(
                   [last.arg EXCEPT
                      !.id.count = CounterOf(last.arg.id.table, db)]))
        /\ \A i \in EntriesOf("order", last.before) :
               /\ sled_contains_key(db, last.before[i][1])
               /\ sled_get(db, last.before[i][1]) = last.before[i][2]

-----------------------------------------------------------------------------
(* Finishing what is finished. *)

\* The key under "old" of the order a request names.
FinishedKey(order) ==
    OrderKeyText(<<"o","l","d">>, order.id.table, order.id.count)

\* The key under "new" of the order a request names.
OpenKey(order) ==
    OrderKeyText(<<"n","e","w">>, order.id.table, order.id.count)

\* C29: a finish-order for an order stored as finished, served by a store
\* whose calls succeed, is answered Ok when the request names the order as
\* finished and with a failure when it names it as open, and leaves the
\* store as it was in both cases; and no finish-order writes an entry under
\* a "new" key, or changes a table, an offer or an order other than the one
\* it names.
C29_FinishOnce ==
    last.op = "handler_orders_finish" =>
        /\ (/\ sled_contains_key(last.before, FinishedKey(last.arg))
            /\ last.env.f = 0
            /\ ~IsLockFailure(last.resp)) =>
               /\ db = last.before
               /\ last.resp.code = "Ok" <=> last.arg.finished
        /\ \A k \in Written("order", last.before, db) :
               k = FinishedKey(last.arg)
        /\ Written("table", last.before, db) = {}
        /\ Written("offer", last.before, db) = {}
        /\ \A i \in 1..Len(last.before) :
               last.before[i][1] \notin {FinishedKey(last.arg),
                                         OpenKey(last.arg)}
                 => /\ sled_contains_key(db, last.before[i][1])
                    /\ sled_get(db, last.before[i][1]) = last.before[i][2]

-----------------------------------------------------------------------------
(* The lock from one request to the next. *)

\* The mutex is locked only while a handler is between its db.lock() and
\* its return.
HeldByHandler == locked => \E w \in Workers : threads[w].pc \in Holding

\* A thread that waits in db.lock() gets out of it: it holds the guard, or
\* the mutex has been poisoned by a panic.
Acquires(w) ==
    threads[w].pc = "lock" ~> (threads[w].pc \in Holding \/ poisoned)

\* A thread that serves a request gets to the end of it.
Completes(w) == threads[w].pc # "idle" ~> threads[w].pc = "idle"

=============================================================================
